---- MODULE Spec2Model ----
(***************************************************************************)
(* SmallString (src/small_string/small_string.cpp): a string with a 22     *)
(* byte inline buffer that spills into a heap allocated, doubling          *)
(* Fallback vector.  The model keeps the heap explicit (Fallback objects   *)
(* and char arrays are separate allocations with their own identities) so  *)
(* that ownership, leaks, double releases and allocation failure can be    *)
(* stated.                                                                 *)
(***************************************************************************)
EXTENDS Integers, Sequences, FiniteSets, TLC

\* ------------------------------------------------------------ constants
BUFFER_LIMIT == 22
FALLBACK_INITIAL_CAP == 10

\* nullptr, and the value of a char or field that was never written.
NULL == 0
Indet == -1

\* ------------------------------------------------------------ bounds
\* append is offered only while the result stays within MaxLen bytes.
MaxLen == 34
\* The same limit for the one object of SpecLarge, which grows three times.
MaxLarge == 66
\* Size of the heap: at most MaxFallbacks Fallback objects live at once;
\* operator new throws std::bad_alloc when none is free.
MaxFallbacks == 2
\* An operation may be told that its k-th allocation fails, k in 1..MaxFailAt.
MaxFailAt == 3
\* SpecOps: operator+ holds copies of both operands while they live, so its
\* heap has room for MaxOpsFallbacks Fallbacks, and a concatenation is
\* offered while the result stays within MaxCat bytes.
MaxOpsFallbacks == 4
MaxCat == 57

\* The named SmallString objects of the program (storage that holds a live
\* object or none).
SlotOrder == <<"a", "b">>
Slots == {SlotOrder[n] : n \in DOMAIN SlotOrder}

\* The addresses operator new can return in a heap with room for n
\* Fallbacks: one char array per Fallback, and one more while one grows.
FbIds(n) == 1..n
BufIds(n) == 1..(n + 1)

\* The literals the program passes to SmallString(const char*) and append:
\* NUL-terminated, so strlen is the length of the sequence.
LitQ == [i \in 1..11 |-> i]
LitR == [i \in 1..12 |-> 20 + i]
LitT == <<71, 72, 73>>
\* SmallString s(literal) is run with LitQ or LitR, s.append(literal) with
\* LitQ (Spec) or LitT (SpecLarge).
CtorLiterals == {LitQ, LitR}
AppendLiterals == {LitQ}
LargeLiterals == {LitT}

\* The literals objects are compared with.
CompareLiterals ==
  {LitQ, LitQ \o LitQ, LitR \o LitQ, LitR \o LitQ \o LitR \o LitQ}

strlen(literal) == Len(literal)

VARIABLES
  strs,    \* Slots -> [_size, _buffer, _fb]: the SmallString in each slot
  live,    \* the slots that hold a constructed, not yet destroyed object
  fbs,     \* live Fallback objects: id -> [fallback, size, capacity]
  bufs,    \* live char arrays: id -> [0..n-1 -> char]
  room,    \* how many Fallbacks the heap has room for (fixed in a run)
  fault,   \* "none", or the first undefined behaviour the run has hit
  last,    \* the operation that produced this state, and how it ended
  sent     \* per slot: the bytes handed to an object that was only ever
           \* built from literals and appended to, every call returning

vars == <<strs, live, fbs, bufs, room, fault, last, sent>>

MinOf(S) == CHOOSE x \in S : \A y \in S : x <= y

\* ------------------------------------------------------------ execution
\* A world is the heap and the objects while one operation runs, together
\* with the allocation that is to fail (fail = k: the k-th from now throws,
\* 0: none), the exception in flight, the value of the last expression and
\* the number of Fallbacks released so far.
World(k) ==
  [strs |-> strs, fbs |-> fbs, bufs |-> bufs, room |-> room, fault |-> fault,
   fail |-> k, threw |-> "none", ret |-> 0, freed |-> 0]

Stopped(w) == w.threw # "none" \/ w.fault # "none"

Throw(w, e) == [w EXCEPT !.threw = e]

Undefined(w, what) == [w EXCEPT !.fault = IF @ = "none" THEN what ELSE @]

Without(f, x) == [y \in (DOMAIN f) \ {x} |-> f[y]]

\* new char[n]: a fresh array of n indeterminate chars, or std::bad_alloc.
new_char_array(w, n) ==
  LET free == BufIds(w.room) \ DOMAIN w.bufs IN
  IF w.fail = 1 \/ free = {}
  THEN [w EXCEPT !.threw = "bad_alloc", !.fail = 0]
  ELSE LET b == MinOf(free) IN
       [w EXCEPT !.bufs = (b :> [i \in 0..(n - 1) |-> Indet]) @@ @,
                 !.fail = IF @ > 1 THEN @ - 1 ELSE 0,
                 !.ret = b]

\* delete[] p
delete_char_array(w, b) ==
  IF b = NULL THEN w
  ELSE IF b \notin DOMAIN w.bufs THEN Undefined(w, "double_free")
  ELSE [w EXCEPT !.bufs = Without(@, b)]

\* Faulty variant of copy_chars: the loop stops one char early.
copy_chars_short(n, from, to) ==
  [i \in DOMAIN to |-> IF i < n - 1 THEN from[i] ELSE to[i]]

\* Fallback::copy_chars(n, from, to) on two arrays given as functions.
copy_chars(n, from, to) ==
  [i \in DOMAIN to |-> IF i < n THEN from[i] ELSE to[i]]

\* ------------------------------------------------------------ Fallback
\* Faulty variant of Fallback_ctor: the first char is stored but not counted.
Fallback_ctor_uncounted(w, f, c) ==
  LET w1 == new_char_array(w, FALLBACK_INITIAL_CAP) IN
  IF Stopped(w1) THEN w1
  ELSE [w1 EXCEPT !.bufs[w1.ret][0] = c,
                  !.fbs = (f :> [fallback |-> w1.ret, size |-> 0,
                                 capacity |-> FALLBACK_INITIAL_CAP]) @@ @,
                  !.ret = f]

\* Fallback::Fallback(const char* c) run on the storage f.
Fallback_ctor(w, f, c) ==
  IF FALLBACK_INITIAL_CAP = 0 THEN Throw(w, "out_of_range")
  ELSE LET w1 == new_char_array(w, FALLBACK_INITIAL_CAP) IN
       IF Stopped(w1) THEN w1
       ELSE [w1 EXCEPT !.bufs[w1.ret][0] = c,
                       !.fbs = (f :> [fallback |-> w1.ret, size |-> 1,
                                      capacity |-> FALLBACK_INITIAL_CAP]) @@ @,
                       !.ret = f]

\* new Fallback(c): storage for the object, then its constructor; storage is
\* given back when the constructor throws.
new_Fallback(w, c) ==
  LET free == FbIds(w.room) \ DOMAIN w.fbs IN
  IF w.fail = 1 \/ free = {}
  THEN [w EXCEPT !.threw = "bad_alloc", !.fail = 0]
  ELSE Fallback_ctor([w EXCEPT !.fail = IF @ > 1 THEN @ - 1 ELSE 0],
                     MinOf(free), c)

\* Fallback::~Fallback() followed by the release of the object: delete p.
delete_Fallback(w, f) ==
  IF f = NULL THEN w
  ELSE IF f \notin DOMAIN w.fbs THEN Undefined(w, "double_free")
  ELSE LET w1 == delete_char_array(w, w.fbs[f].fallback) IN
       [w1 EXCEPT !.fbs = Without(@, f), !.freed = @ + 1]

\* Faulty variant of double_capacity: the capacity is doubled before the allocation
\* (the order the comment in the source calls WRONG).
double_capacity_early(w, f) ==
  LET w0 == [w EXCEPT !.fbs[f].capacity = @ * 2]
      w1 == new_char_array(w0, w0.fbs[f].capacity) IN
  IF Stopped(w1) THEN w1
  ELSE LET new_fallback == w1.ret
           old == w1.fbs[f].fallback
           w3 == [w1 EXCEPT !.bufs[new_fallback] =
                    copy_chars(w1.fbs[f].size, w1.bufs[old], @)]
           w4 == delete_char_array(w3, old)
       IN [w4 EXCEPT !.fbs[f].fallback = new_fallback]

\* Fallback::double_capacity()
double_capacity(w, f) ==
  LET w1 == new_char_array(w, w.fbs[f].capacity * 2) IN
  IF Stopped(w1) THEN w1
  ELSE LET new_fallback == w1.ret
           old == w1.fbs[f].fallback
           w2 == [w1 EXCEPT !.fbs[f].capacity = @ * 2]
           w3 == IF old \notin DOMAIN w2.bufs
                 THEN Undefined(w2, "use_after_free")
                 ELSE [w2 EXCEPT !.bufs[new_fallback] =
                         copy_chars(w2.fbs[f].size, w2.bufs[old], @)]
           w4 == delete_char_array(w3, old)
       IN [w4 EXCEPT !.fbs[f].fallback = new_fallback]

\* Faulty variant of Fallback_append_char: the array is doubled one char
\* before it is full.
Fallback_append_char_grows_early(w, f, c) ==
  LET w1 == IF w.fbs[f].size + 1 >= w.fbs[f].capacity
            THEN double_capacity(w, f) ELSE w IN
  IF Stopped(w1) THEN w1
  ELSE LET fb == w1.fbs[f] IN
       [w1 EXCEPT !.bufs[fb.fallback][fb.size] = c,
                  !.fbs[f].size = @ + 1]

\* Fallback::append_char(const char* c)
Fallback_append_char(w, f, c) ==
  LET w1 == IF w.fbs[f].size = w.fbs[f].capacity
            THEN double_capacity(w, f) ELSE w IN
  IF Stopped(w1) THEN w1
  ELSE LET fb == w1.fbs[f] IN
       IF fb.fallback \notin DOMAIN w1.bufs
       THEN Undefined(w1, "use_after_free")
       ELSE IF fb.size \notin DOMAIN w1.bufs[fb.fallback]
       THEN Undefined(w1, "buffer_overflow")
       ELSE [w1 EXCEPT !.bufs[fb.fallback][fb.size] = c,
                       !.fbs[f].size = @ + 1]

\* ------------------------------------------------------------ SmallString
\* Storage that holds no object: every field indeterminate.
NoObject ==
  [_size |-> Indet, _buffer |-> [i \in 0..(BUFFER_LIMIT - 1) |-> Indet],
   _fb |-> Indet]

\* Faulty variant of append_char: _size is incremented before the Fallback
\* is allocated or grown.
append_char_counts_first(w, s, c) ==
  LET me == w.strs[s]
      w0 == [w EXCEPT !.strs[s]._size = @ + 1] IN
  IF me._size = BUFFER_LIMIT
  THEN LET w1 == new_Fallback(w0, c) IN
       IF Stopped(w1) THEN w1
       ELSE [w1 EXCEPT !.strs[s]._fb = w1.ret]
  ELSE IF me._size > BUFFER_LIMIT
  THEN IF me._fb \notin DOMAIN w.fbs
       THEN Undefined(w, IF me._fb = NULL THEN "null_deref" ELSE "use_after_free")
       ELSE Fallback_append_char(w0, me._fb, c)
  ELSE [w0 EXCEPT !.strs[s]._buffer[me._size] = c]

\* Faulty variant of append_char: a Fallback is created whenever the inline
\* buffer is full, not only the first time.
append_char_spills_again(w, s, c) ==
  LET me == w.strs[s] IN
  IF me._size >= BUFFER_LIMIT
  THEN LET w1 == new_Fallback(w, c) IN
       IF Stopped(w1) THEN w1
       ELSE [w1 EXCEPT !.strs[s]._fb = w1.ret, !.strs[s]._size = @ + 1]
  ELSE [w EXCEPT !.strs[s]._buffer[me._size] = c, !.strs[s]._size = @ + 1]

\* SmallString::append_char(const char* c) on the object in slot s.
append_char(w, s, c) ==
  LET me == w.strs[s] IN
  IF me._size = BUFFER_LIMIT
  THEN LET w1 == new_Fallback(w, c) IN
       IF Stopped(w1) THEN w1
       ELSE [w1 EXCEPT !.strs[s]._fb = w1.ret, !.strs[s]._size = @ + 1]
  ELSE IF me._size > BUFFER_LIMIT
  THEN IF me._fb \notin DOMAIN w.fbs
       THEN Undefined(w, IF me._fb = NULL THEN "null_deref" ELSE "use_after_free")
       ELSE LET w1 == Fallback_append_char(w, me._fb, c) IN
            IF Stopped(w1) THEN w1
            ELSE [w1 EXCEPT !.strs[s]._size = @ + 1]
  ELSE [w EXCEPT !.strs[s]._buffer[me._size] = c, !.strs[s]._size = @ + 1]

\* SmallString::SmallString()
SmallString_default(w, s) ==
  [w EXCEPT !.strs[s]._size = 0, !.strs[s]._fb = NULL]

\* SmallString::~SmallString(); the storage then holds no object.
SmallString_dtor(w, s) ==
  LET w1 == delete_Fallback(w, w.strs[s]._fb) IN
  [w1 EXCEPT !.strs[s] = NoObject]

\* SmallString::length()
length(w, s) == w.strs[s]._size

\* Faulty variant of index: the bounds check accepts i = _size.
index_inclusive(w, s, i) ==
  LET me == w.strs[s] IN
  IF i > me._size
  THEN [threw |-> "out_of_range", fault |-> "none", val |-> Indet]
  ELSE IF i < BUFFER_LIMIT
  THEN [threw |-> "none", fault |-> "none", val |-> me._buffer[i]]
  ELSE IF me._fb \notin DOMAIN w.fbs
  THEN [threw |-> "none", fault |-> "null_deref", val |-> Indet]
  ELSE IF (i - BUFFER_LIMIT) \notin DOMAIN w.bufs[w.fbs[me._fb].fallback]
  THEN [threw |-> "none", fault |-> "buffer_overflow", val |-> Indet]
  ELSE [threw |-> "none", fault |-> "none",
        val |-> w.bufs[w.fbs[me._fb].fallback][i - BUFFER_LIMIT]]

\* SmallString::operator[](size_t i): [threw, fault, val].
index(w, s, i) ==
  LET me == w.strs[s] IN
  IF i >= me._size
  THEN [threw |-> "out_of_range", fault |-> "none", val |-> Indet]
  ELSE IF i < BUFFER_LIMIT
  THEN [threw |-> "none", fault |-> "none", val |-> me._buffer[i]]
  ELSE IF me._fb \notin DOMAIN w.fbs
  THEN [threw |-> "none",
        fault |-> IF me._fb = NULL THEN "null_deref" ELSE "use_after_free",
        val |-> Indet]
  ELSE IF w.fbs[me._fb].fallback \notin DOMAIN w.bufs
  THEN [threw |-> "none", fault |-> "use_after_free", val |-> Indet]
  ELSE IF (i - BUFFER_LIMIT) \notin DOMAIN w.bufs[w.fbs[me._fb].fallback]
  THEN [threw |-> "none", fault |-> "buffer_overflow", val |-> Indet]
  ELSE [threw |-> "none", fault |-> "none",
        val |-> w.bufs[w.fbs[me._fb].fallback][i - BUFFER_LIMIT]]

\* Faulty variant of empty: _size is not reset.
empty_keeps_size(w, s) ==
  LET w1 == delete_Fallback(w, w.strs[s]._fb) IN
  [w1 EXCEPT !.strs[s]._fb = NULL]

\* Faulty variant of empty: _fb is not reset after the delete.
empty_keeps_fb(w, s) ==
  LET w1 == delete_Fallback(w, w.strs[s]._fb) IN
  [w1 EXCEPT !.strs[s]._size = 0]

\* Faulty variant of empty: the Fallback is dropped without delete.
empty_leaks(w, s) ==
  [w EXCEPT !.strs[s]._fb = NULL, !.strs[s]._size = 0]

\* SmallString::empty()
empty(w, s) ==
  LET w1 == delete_Fallback(w, w.strs[s]._fb) IN
  [w1 EXCEPT !.strs[s]._fb = NULL, !.strs[s]._size = 0]

\* The loop of SmallString::append: literal[i..length-1] one char at a time.
RECURSIVE append_from(_, _, _, _)
append_from(w, s, literal, i) ==
  IF Stopped(w) \/ i >= strlen(literal) THEN w
  ELSE append_from(append_char(w, s, literal[i + 1]), s, literal, i + 1)

\* SmallString::append(const char* literal)
append(w, s, literal) == append_from(w, s, literal, 0)

\* The loop shared by the copy constructor and copy assignment:
\* for (i < length) { c = other[i]; append_char(&c); }
RECURSIVE copy_from(_, _, _, _, _)
copy_from(w, s, other, i, len) ==
  IF Stopped(w) \/ i >= len THEN w
  ELSE LET c == index(w, other, i) IN
       IF c.fault # "none" THEN Undefined(w, c.fault)
       ELSE IF c.threw # "none" THEN Throw(w, c.threw)
       ELSE copy_from(append_char(w, s, c.val), s, other, i + 1, len)

\* A delegating constructor whose body throws: the object counts as
\* constructed, so its destructor runs during unwinding.
Unwind(w, s) ==
  IF w.threw # "none" /\ w.fault = "none" THEN SmallString_dtor(w, s) ELSE w

\* SmallString::SmallString(const char* literal)
SmallString_literal(w, s, literal) ==
  Unwind(append(SmallString_default(w, s), s, literal), s)

\* Faulty variant of SmallString_copy: the member-wise copy the compiler would
\* generate (the shallow copy the source's comment warns of).
SmallString_copy_shallow(w, s, other) ==
  [w EXCEPT !.strs[s] = w.strs[other]]

\* SmallString::SmallString(const SmallString& other)
SmallString_copy(w, s, other) ==
  LET w1 == SmallString_default(w, s) IN
  Unwind(copy_from(w1, s, other, 0, length(w1, other)), s)

\* Faulty variant of SmallString_move: other._size is not reset.
SmallString_move_keeps_size(w, s, other) ==
  LET w1 == [w EXCEPT !.strs[s]._size = w.strs[other]._size]
      w3 == [w1 EXCEPT !.strs[s]._buffer =
               copy_chars(BUFFER_LIMIT, w1.strs[other]._buffer, @)]
      w4 == [w3 EXCEPT !.strs[s]._fb = w3.strs[other]._fb]
  IN [w4 EXCEPT !.strs[other]._fb = NULL]

\* SmallString::SmallString(SmallString&& other)
SmallString_move(w, s, other) ==
  LET w1 == [w EXCEPT !.strs[s]._size = w.strs[other]._size]
      w2 == [w1 EXCEPT !.strs[other]._size = 0]
      w3 == [w2 EXCEPT !.strs[s]._buffer =
               copy_chars(BUFFER_LIMIT, w2.strs[other]._buffer, @)]
      w4 == [w3 EXCEPT !.strs[s]._fb = w3.strs[other]._fb]
  IN [w4 EXCEPT !.strs[other]._fb = NULL]

\* Faulty variant of copy_assign: the target is not emptied first.
copy_assign_keeps(w, s, rhs) ==
  copy_from(w, s, rhs, 0, length(w, rhs))

\* SmallString::operator=(const SmallString& rhs)
copy_assign(w, s, rhs) ==
  LET w1 == empty(w, s) IN
  IF Stopped(w1) THEN w1
  ELSE copy_from(w1, s, rhs, 0, length(w1, rhs))

\* Faulty variant of move_assign: rhs._fb is not reset.
move_assign_keeps_fb(w, s, rhs) ==
  LET w1 == [w EXCEPT !.strs[s]._size = w.strs[rhs]._size]
      w2 == [w1 EXCEPT !.strs[rhs]._size = 0]
      w3 == [w2 EXCEPT !.strs[s]._buffer =
               copy_chars(BUFFER_LIMIT, w2.strs[rhs]._buffer, @)]
  IN [w3 EXCEPT !.strs[s]._fb = w3.strs[rhs]._fb]

\* Faulty variant of move_assign: the bytes are copied and rhs is emptied.
move_assign_copies(w, s, rhs) ==
  LET w1 == copy_assign(w, s, rhs) IN
  IF Stopped(w1) THEN w1 ELSE empty(w1, rhs)

\* SmallString::operator=(SmallString&& rhs)
move_assign(w, s, rhs) ==
  LET w1 == [w EXCEPT !.strs[s]._size = w.strs[rhs]._size]
      w2 == [w1 EXCEPT !.strs[rhs]._size = 0]
      w3 == [w2 EXCEPT !.strs[s]._buffer =
               copy_chars(BUFFER_LIMIT, w2.strs[rhs]._buffer, @)]
      w4 == [w3 EXCEPT !.strs[s]._fb = w3.strs[rhs]._fb]
  IN [w4 EXCEPT !.strs[rhs]._fb = NULL]

\* ------------------------------------------------------------ operators
\* The outcome of an expression that changes no state.
Result(t, f, v) == [threw |-> t, fault |-> f, val |-> v]

\* rhs[i] on a string literal: its chars, then the terminating NUL (0);
\* beyond that the read leaves the array.
literal_at(literal, i) ==
  IF i < Len(literal) THEN Result("none", "none", literal[i + 1])
  ELSE IF i = Len(literal) THEN Result("none", "none", 0)
  ELSE Result("none", "buffer_overflow", Indet)

\* Two chars read for a comparison: the first error of the two reads, or
\* whether the chars differ.
differs(a, b) ==
  IF a.fault # "none" THEN Result("none", a.fault, FALSE)
  ELSE IF a.threw # "none" THEN Result(a.threw, "none", FALSE)
  ELSE IF b.fault # "none" THEN Result("none", b.fault, FALSE)
  ELSE IF b.threw # "none" THEN Result(b.threw, "none", FALSE)
  ELSE IF a.val = Indet \/ b.val = Indet
  THEN Result("none", "indeterminate_read", FALSE)
  ELSE Result("none", "none", a.val # b.val)

\* The loop of operator==(const SmallString&, const SmallString&).
RECURSIVE equals_from(_, _, _, _, _)
equals_from(w, lhs, rhs, i, len) ==
  IF i >= len THEN Result("none", "none", TRUE)
  ELSE LET d == differs(index(w, lhs, i), index(w, rhs, i)) IN
       IF d.fault # "none" \/ d.threw # "none" THEN d
       ELSE IF d.val THEN Result("none", "none", FALSE)
       ELSE equals_from(w, lhs, rhs, i + 1, len)

\* operator==(const SmallString& lhs, const SmallString& rhs)
equals(w, lhs, rhs) ==
  IF length(w, lhs) # length(w, rhs) THEN Result("none", "none", FALSE)
  ELSE equals_from(w, lhs, rhs, 0, length(w, lhs))

\* The loop of operator==(const SmallString&, const char*).
RECURSIVE equals_literal_from(_, _, _, _, _)
equals_literal_from(w, lhs, rhs, i, len) ==
  IF i >= len THEN Result("none", "none", TRUE)
  ELSE LET d == differs(index(w, lhs, i), literal_at(rhs, i)) IN
       IF d.fault # "none" \/ d.threw # "none" THEN d
       ELSE IF d.val THEN Result("none", "none", FALSE)
       ELSE equals_literal_from(w, lhs, rhs, i + 1, len)

\* operator==(const SmallString& lhs, const char* rhs)
equals_literal(w, lhs, rhs) ==
  equals_literal_from(w, lhs, rhs, 0, length(w, lhs))

\* operator==(const char* lhs, const SmallString& rhs)
literal_equals(w, lhs, rhs) == equals_literal(w, rhs, lhs)

\* Storage for the objects an expression creates: function parameters and
\* the temporary that holds a result.
WithTemps(w, T) == [w EXCEPT !.strs = @ @@ [t \in T |-> NoObject]]

DropTemps(w, T) ==
  [w EXCEPT !.strs = [x \in (DOMAIN @) \ T |-> @[x]]]

\* Faulty variant of operator_plus: the chars of rhs are appended to the
\* caller's L (the parameter lhs taken by reference).
operator_plus_by_reference(w, ret, L, R) ==
  LET w1 == copy_from(w, L, R, 0, length(w, R)) IN
  IF Stopped(w1) THEN w1 ELSE SmallString_copy(w1, ret, L)

\* The one element of a singleton set (used to name an intermediate world
\* once, so that it is computed once).
Only(S) == CHOOSE x \in S : TRUE

\* operator+ from `return lhs` on: the result is move constructed from the
\* parameter lhs unless the loop threw, and the parameters are destroyed.
plus_return(w3, ret) ==
  IF w3.fault # "none" THEN DropTemps(w3, {"lhs", "rhs"})
  ELSE Only({DropTemps(SmallString_dtor(SmallString_dtor(w4, "rhs"), "lhs"),
                       {"lhs", "rhs"}) :
               w4 \in {IF w3.threw # "none" THEN w3
                       ELSE SmallString_move(w3, ret, "lhs")}})

\* operator+ once both parameters are initialised (or the copy of R threw,
\* and lhs is destroyed): the loop c = rhs[i]; lhs.append_char(&c).
plus_loop(w2, ret) ==
  IF Stopped(w2) THEN DropTemps(SmallString_dtor(w2, "lhs"), {"lhs", "rhs"})
  ELSE Only({plus_return(w3, ret) :
               w3 \in {copy_from(w2, "lhs", "rhs", 0, length(w2, "rhs"))}})

\* operator+ once lhs is initialised (or its copy threw): rhs is copy
\* constructed from R.
plus_rhs(w1, ret, R) ==
  IF Stopped(w1) THEN DropTemps(w1, {"lhs", "rhs"})
  ELSE Only({plus_loop(w2, ret) : w2 \in {SmallString_copy(w1, "rhs", R)}})

\* SmallString operator+(SmallString lhs, SmallString rhs) called as L + R,
\* its result constructed in ret.  The parameters are copies of L and R
\* (the order of the two copies is unspecified; when one throws the other
\* is destroyed, so both orders end alike), `return lhs` move constructs
\* the result from the parameter, and the parameters are then destroyed.
operator_plus(w, ret, L, R) ==
  Only({plus_rhs(w1, ret, R) :
          w1 \in {SmallString_copy(WithTemps(w, {"lhs", "rhs"}), "lhs", L)}})

\* ------------------------------------------------------------ addresses
\* operator new may return any free address.  The program never compares or
\* orders addresses, so after each operation the live heap objects are
\* renamed to a canonical choice: the Fallbacks owned by the slots in slot
\* order, then the unowned ones by size; each char array takes the name of
\* its Fallback.  A heap that is not a set of Fallbacks with one array each
\* and at most one owner each is left as it is.
OwnerRank(w, f) ==
  IF w.strs["a"]._fb = f THEN 1 ELSE IF w.strs["b"]._fb = f THEN 2 ELSE 3

Key(w, f) == OwnerRank(w, f) * 100000 + w.fbs[f].size * 100 + f

NewName(w, f) == 1 + Cardinality({g \in DOMAIN w.fbs : Key(w, g) < Key(w, f)})

OldName(w, n) == CHOOSE f \in DOMAIN w.fbs : NewName(w, f) = n

Tidy(w) ==
  /\ w.fault = "none"
  /\ \A s \in Slots : w.strs[s]._fb \in DOMAIN w.fbs \cup {NULL, Indet}
  /\ w.strs["a"]._fb \in DOMAIN w.fbs => w.strs["a"]._fb # w.strs["b"]._fb
  /\ \A f, g \in DOMAIN w.fbs : f # g => w.fbs[f].fallback # w.fbs[g].fallback
  /\ DOMAIN w.bufs = {w.fbs[f].fallback : f \in DOMAIN w.fbs}

Renamed(w) ==
  [w EXCEPT
     !.strs = [s \in Slots |-> IF w.strs[s]._fb \in DOMAIN w.fbs
                               THEN [w.strs[s] EXCEPT !._fb = NewName(w, @)]
                               ELSE w.strs[s]],
     !.fbs = [n \in 1..Cardinality(DOMAIN w.fbs) |->
                [w.fbs[OldName(w, n)] EXCEPT !.fallback = n]],
     !.bufs = [n \in 1..Cardinality(DOMAIN w.fbs) |->
                 w.bufs[w.fbs[OldName(w, n)].fallback]]]

\* The chars of _buffer at or beyond _size are dead: operator[] refuses
\* them, append_char writes a cell before _size covers it, and the moves
\* copy them to cells that are dead in the target too.  A dead cell holds
\* Indet, so that any read of one is seen as a read of an indeterminate value.
Scrubbed(w) ==
  [w EXCEPT !.strs = [s \in Slots |->
     [w.strs[s] EXCEPT !._buffer =
        [i \in DOMAIN @ |-> IF i < w.strs[s]._size THEN @[i] ELSE Indet]]]]

Normalise(w) ==
  Scrubbed(IF DOMAIN w.fbs = {} \/ ~Tidy(w) THEN w ELSE Renamed(w))

\* ------------------------------------------------------------ actions
Op(name, s, other, w) ==
  [op |-> name, dst |-> s, src |-> other, threw |-> w.threw, freed |-> w.freed]

NotSent == [ok |-> FALSE, S |-> << >>]
Sent(S) == [ok |-> TRUE, S |-> S]

\* The state after an operation that ran to w0.
Commit(w0, lv, l, snt) ==
  \E w \in {Normalise(w0)} :
  /\ strs' = w.strs
  /\ fbs' = w.fbs
  /\ bufs' = w.bufs
  /\ room' = room
  /\ fault' = w.fault
  /\ live' = lv
  /\ last' = l
  /\ sent' = snt

FailAt == 0..MaxFailAt

Init ==
  /\ strs = [s \in Slots |-> NoObject]
  /\ live = {}
  /\ fbs = << >>
  /\ bufs = << >>
  /\ room = MaxFallbacks
  /\ fault = "none"
  /\ last = Op("init", "a", "a", World(0))
  /\ sent = [s \in Slots |-> NotSent]

\* SmallString s;
Construct(s) ==
  /\ s \notin live
  /\ \E w \in {SmallString_default(World(0), s)} :
     Commit(w, live \cup {s}, Op("construct", s, s, w),
            [sent EXCEPT ![s] = Sent(<< >>)])

\* SmallString s(literal);
ConstructLiteral(s, literal, k) ==
  /\ s \notin live
  /\ \E w \in {SmallString_literal(World(k), s, literal)} :
     Commit(w, IF w.threw = "none" THEN live \cup {s} ELSE live,
            Op("construct_literal", s, s, w),
            [sent EXCEPT ![s] = IF w.threw = "none" THEN Sent(literal)
                                ELSE NotSent])

\* s.append(literal);
AppendLiteral(s, literal, k, max) ==
  /\ s \in live
  /\ strs[s]._size + strlen(literal) <= max
  /\ \E w \in {append(World(k), s, literal)} :
     Commit(w, live, Op("append", s, s, w),
            [sent EXCEPT ![s] = IF w.threw = "none" /\ @.ok
                                THEN Sent(@.S \o literal) ELSE NotSent])

\* s.empty();
Empty(s) ==
  /\ s \in live
  /\ \E w \in {empty(World(0), s)} :
     Commit(w, live, Op("empty", s, s, w), [sent EXCEPT ![s] = NotSent])

\* SmallString s(other);
CopyConstruct(s, other, k) ==
  /\ s \notin live
  /\ other \in live
  /\ \E w \in {SmallString_copy(World(k), s, other)} :
     Commit(w, IF w.threw = "none" THEN live \cup {s} ELSE live,
            Op("copy_construct", s, other, w),
            [sent EXCEPT ![s] = NotSent])

\* SmallString s(std::move(other));
MoveConstruct(s, other) ==
  /\ s \notin live
  /\ other \in live
  /\ \E w \in {SmallString_move(World(0), s, other)} :
     Commit(w, live \cup {s}, Op("move_construct", s, other, w),
            [sent EXCEPT ![s] = NotSent, ![other] = NotSent])

\* s = rhs;
CopyAssign(s, rhs, k) ==
  /\ s \in live
  /\ rhs \in live
  /\ \E w \in {copy_assign(World(k), s, rhs)} :
     Commit(w, live, Op("copy_assign", s, rhs, w),
            [sent EXCEPT ![s] = NotSent])

\* s = std::move(rhs);
MoveAssign(s, rhs) ==
  /\ s \in live
  /\ rhs \in live
  /\ \E w \in {move_assign(World(0), s, rhs)} :
     Commit(w, live, Op("move_assign", s, rhs, w),
            [sent EXCEPT ![s] = NotSent, ![rhs] = NotSent])

\* s goes out of scope.
Destroy(s) ==
  /\ s \in live
  /\ \E w \in {SmallString_dtor(World(0), s)} :
     Commit(w, live \ {s}, Op("destroy", s, s, w),
            [sent EXCEPT ![s] = NotSent])

Next ==
  \/ \E s \in Slots : Construct(s)
  \/ \E s \in Slots, literal \in CtorLiterals, k \in FailAt :
       ConstructLiteral(s, literal, k)
  \/ \E s \in Slots, literal \in AppendLiterals, k \in FailAt :
       AppendLiteral(s, literal, k, MaxLen)
  \/ \E s \in Slots : Empty(s)
  \/ \E s \in Slots, other \in Slots, k \in FailAt : CopyConstruct(s, other, k)
  \/ \E s \in Slots, other \in Slots : MoveConstruct(s, other)
  \/ \E s \in Slots, rhs \in Slots, k \in FailAt : CopyAssign(s, rhs, k)
  \/ \E s \in Slots, rhs \in Slots : MoveAssign(s, rhs)
  \/ \E s \in Slots : Destroy(s)

Spec == Init /\ [][Next]_vars

\* One object, built from a literal and appended to three bytes at a time
\* until its Fallback has doubled three times.
NextLarge ==
  \/ Construct("a")
  \/ \E literal \in CtorLiterals, k \in FailAt : ConstructLiteral("a", literal, k)
  \/ \E literal \in LargeLiterals, k \in FailAt :
       AppendLiteral("a", literal, k, MaxLarge)
  \/ Empty("a")
  \/ Destroy("a")

SpecLarge == Init /\ [][NextLarge]_vars

\* An object built from literals, compared and concatenated; the heap has
\* room for the copies operator+ takes of two spilled operands.
InitOps ==
  /\ strs = [s \in Slots |-> NoObject]
  /\ live = {}
  /\ fbs = << >>
  /\ bufs = << >>
  /\ room = MaxOpsFallbacks
  /\ fault = "none"
  /\ last = Op("init", "a", "a", World(0))
  /\ sent = [s \in Slots |-> NotSent]

\* The state after a comparison that gave r: nothing but the record of it.
Compared(yes, no, lhs, rhs, r) ==
  \E w \in {IF r.fault # "none" THEN Undefined(World(0), r.fault)
            ELSE Throw(World(0), r.threw)} :
    Commit(w, live, Op(IF r.val THEN yes ELSE no, lhs, rhs, w), sent)

\* lhs == rhs
Equal(lhs, rhs) ==
  /\ lhs \in live /\ rhs \in live
  /\ Compared("equal", "not_equal", lhs, rhs, equals(World(0), lhs, rhs))

\* s == literal
EqualLiteral(s, literal) ==
  /\ s \in live
  /\ Compared("equal_literal", "not_equal_literal", s, s,
              equals_literal(World(0), s, literal))

\* literal == s
LiteralEqual(literal, s) ==
  /\ s \in live
  /\ Compared("literal_equal", "literal_not_equal", s, s,
              literal_equals(World(0), literal, s))

\* SmallString s = L + R;
Concat(s, L, R, k) ==
  /\ s \notin live /\ L \in live /\ R \in live
  /\ strs[L]._size + strs[R]._size <= MaxCat
  /\ \E w \in {operator_plus(World(k), s, L, R)} :
     Commit(w, IF w.threw = "none" THEN live \cup {s} ELSE live,
            Op("concat", s, L, w), [sent EXCEPT ![s] = NotSent])

\* L + R == literal, for one of the literals; the temporary that holds the
\* sum is destroyed at the end of the statement.
ConcatEqualsLiteral(L, R, k) ==
  /\ L \in live /\ R \in live
  /\ strs[L]._size + strs[R]._size <= MaxCat
  /\ \E w1 \in {operator_plus(WithTemps(World(k), {"ret"}), "ret", L, R)} :
     \E w2 \in {IF Stopped(w1) THEN w1 ELSE SmallString_dtor(w1, "ret")} :
     \E literal \in CompareLiterals :
     \E r \in {IF Stopped(w1) THEN Result(w1.threw, w1.fault, FALSE)
               ELSE equals_literal(w1, "ret", literal)} :
       Commit(IF r.fault # "none" THEN Undefined(w2, r.fault) ELSE w2, live,
              Op(IF r.val THEN "concat_equal" ELSE "concat_not_equal",
                 L, R, w2),
              sent)

NextOps ==
  \/ \E s \in Slots : Construct(s)
  \/ \E s \in Slots, literal \in CtorLiterals, k \in FailAt :
       ConstructLiteral(s, literal, k)
  \/ \E s \in Slots, literal \in AppendLiterals, k \in FailAt :
       AppendLiteral(s, literal, k, MaxLen)
  \/ \E s \in Slots : Destroy(s)
  \/ \E lhs \in Slots, rhs \in Slots : Equal(lhs, rhs)
  \/ \E s \in Slots, literal \in CompareLiterals : EqualLiteral(s, literal)
  \/ \E s \in Slots, literal \in CompareLiterals : LiteralEqual(literal, s)
  \/ \E s \in Slots, L \in Slots, R \in Slots, k \in FailAt : Concat(s, L, R, k)
  \/ \E L \in Slots, R \in Slots, k \in FailAt : ConcatEqualsLiteral(L, R, k)

SpecOps == InitOps /\ [][NextOps]_vars

\* ------------------------------------------------------------ properties
\* The byte sequence read through operator[] from the object in slot s.
Str(w, s) == [n \in 1..w.strs[s]._size |-> index(w, s, n - 1).val]

StrNow(s) == Str(World(0), s)

Spilled(s) == s \in live /\ strs[s]._size > BUFFER_LIMIT

Moves == {"move_construct", "move_assign"}

\* The Fallbacks no live SmallString points to.
Unowned == {f \in DOMAIN fbs : \A s \in live : strs[s]._fb # f}

\* C1: every live SmallString has _size <= BUFFER_LIMIT exactly when its _fb
\* is null, and _size > BUFFER_LIMIT exactly when _fb points to a Fallback.
InlineIffNoFallback ==
  \A s \in live :
    /\ strs[s]._size >= 0
    /\ strs[s]._size <= BUFFER_LIMIT <=> strs[s]._fb = NULL
    /\ strs[s]._size > BUFFER_LIMIT <=> strs[s]._fb \in DOMAIN fbs

\* C1 witness: an append onto a full inline buffer failed on allocation
\* while the other SmallString is spilled.
InlineIffNoFallbackWitness ==
  /\ last.op = "append" /\ last.threw = "bad_alloc"
  /\ last.dst \in live /\ strs[last.dst]._size = BUFFER_LIMIT
  /\ \E t \in live : t # last.dst /\ strs[t]._size > BUFFER_LIMIT

\* C2: an object built only by SmallString(), SmallString(literal) and
\* append calls that all returned has the length of the bytes S it was
\* handed and operator[] returns S[i] at every i.
RoundTrip ==
  \A s \in live :
    sent[s].ok =>
      /\ length(World(0), s) = Len(sent[s].S)
      /\ \A i \in 0..(Len(sent[s].S) - 1) :
           LET r == index(World(0), s, i) IN
           r.threw = "none" /\ r.fault = "none" /\ r.val = sent[s].S[i + 1]

\* C2 witness: MaxLarge bytes were handed over, through the inline buffer,
\* the creation of the Fallback and three doublings.
RoundTripWitness ==
  /\ "a" \in live /\ sent["a"].ok /\ Len(sent["a"].S) = MaxLarge
  /\ fbs[strs["a"]._fb].capacity = 8 * FALLBACK_INITIAL_CAP

\* C3: operator[] throws out_of_range exactly for i >= _size; for i < _size
\* it returns a written char, read from the inline buffer or from a live
\* Fallback at a position below the Fallback's size.
IndexBounds ==
  \A s \in live :
    \A i \in 0..(strs[s]._size + 1) :
      LET r == index(World(0), s, i) IN
      /\ r.fault = "none"
      /\ r.threw = "out_of_range" <=> i >= strs[s]._size
      /\ i < strs[s]._size =>
           /\ r.threw = "none"
           /\ r.val # Indet
           /\ i >= BUFFER_LIMIT =>
                /\ strs[s]._fb \in DOMAIN fbs
                /\ fbs[strs[s]._fb].fallback \in DOMAIN bufs
                /\ i - BUFFER_LIMIT < fbs[strs[s]._fb].size

\* C3 witness: a moved-from object, where operator[](0) throws, beside the
\* spilled object that took its bytes, read at its last index.
IndexBoundsWitness ==
  /\ last.op = "move_assign" /\ last.dst # last.src
  /\ strs[last.src]._size = 0
  /\ index(World(0), last.src, 0).threw = "out_of_range"
  /\ Spilled(last.dst)
  /\ index(World(0), last.dst, strs[last.dst]._size - 1).threw = "none"

\* C4: copy assignment of an object to itself leaves its length and bytes
\* as they were.
SelfCopyAssignKeeps ==
  [][\A s \in Slots :
       (last'.op = "copy_assign" /\ last'.dst = s /\ last'.src = s
          /\ last'.threw = "none")
         => StrNow(s)' = StrNow(s)]_vars

\* C5: a copy constructed object has the source's bytes, and an operation
\* leaves the bytes of every object it is not applied to (and does not move
\* from) unchanged.
Touched(l) == {l.dst} \cup (IF l.op \in Moves THEN {l.src} ELSE {})

CopyIndependent ==
  [][/\ \A s, other \in Slots :
          (last'.op = "copy_construct" /\ last'.dst = s /\ last'.src = other
             /\ last'.threw = "none") =>
            /\ s \in live'
            /\ StrNow(s)' = StrNow(other)
            /\ strs'[s]._size = strs[other]._size
     /\ \A x \in live \ Touched(last') :
          x \in live' /\ StrNow(x)' = StrNow(x)]_vars

\* C5 witness: two spilled objects, one with the other's bytes followed by
\* the literal that was just appended to it.
CopyIndependentWitness ==
  /\ last.op = "append" /\ last.threw = "none"
  /\ \E x \in live :
       /\ x # last.dst
       /\ Spilled(x)
       /\ StrNow(last.dst) = StrNow(x) \o LitQ

\* An emptied object takes bytes like a new one and can be destroyed.
Reusable(s) ==
  /\ \A literal \in {LitQ, LitR \o LitQ \o LitQ} :
       LET w == append(World(0), s, literal) IN
       /\ w.fault = "none"
       /\ w.threw = "none" => Str(w, s) = literal
  /\ SmallString_dtor(World(0), s).fault = "none"

\* C6: a move (constructor or assignment) between two objects gives the
\* target the source's bytes and leaves the source empty, without Fallback,
\* reusable and destructible.
MoveTransfers ==
  /\ [][\A s, other \in Slots :
          (last'.op \in Moves /\ last'.dst = s /\ last'.src = other /\ s # other) =>
            /\ StrNow(s)' = StrNow(other)
            /\ strs'[other]._size = 0
            /\ strs'[other]._fb = NULL
            /\ fault' = "none"]_vars
  /\ []((last.op \in Moves /\ last.dst # last.src) => Reusable(last.src))

\* C6 witness: a spilled object has just been moved.
MoveTransfersWitness ==
  /\ last.op \in Moves /\ last.dst # last.src
  /\ Spilled(last.dst)
  /\ strs[last.src]._size = 0

\* C7: a move assignment between two objects leaves no Fallback unowned
\* that was owned before it.
MoveAssignReleases ==
  [][(last'.op = "move_assign" /\ last'.dst # last'.src /\ Unowned = {})
       => Unowned' = {}]_vars

\* C8: no two live objects point to the same Fallback, and no two
\* Fallbacks to the same char array.
ExclusiveOwner ==
  /\ \A s, t \in live :
       s # t /\ strs[s]._fb # NULL => strs[s]._fb # strs[t]._fb
  /\ \A f, g \in DOMAIN fbs : f # g => fbs[f].fallback # fbs[g].fallback

\* C8 witness: a spilled object was copy constructed; both are spilled.
ExclusiveOwnerWitness ==
  /\ last.op = "copy_construct" /\ last.threw = "none"
  /\ Spilled(last.dst) /\ Spilled(last.src)

\* C9: no operation releases, reads or writes a released Fallback or char
\* array, and no live object is left pointing to one.
NoDoubleRelease ==
  /\ fault = "none"
  /\ \A s \in live : strs[s]._fb \in DOMAIN fbs \cup {NULL}
  /\ \A f \in DOMAIN fbs : fbs[f].fallback \in DOMAIN bufs

\* C9 witness: the destructor of one of two spilled objects has released
\* its Fallback; the other object still owns the only Fallback left.
NoDoubleReleaseWitness ==
  /\ last.op = "destroy" /\ last.freed = 1
  /\ \E x \in live : Spilled(x) /\ DOMAIN fbs = {strs[x]._fb}
  /\ Cardinality(DOMAIN bufs) = 1

\* C10: double_capacity with a failing allocation leaves the heap as it
\* was; with a successful one it doubles the capacity, moves to a new
\* array, releases the old one and keeps size and the first size chars.
GrowAllOrNothing ==
  \A f \in DOMAIN fbs :
    LET failed == double_capacity(World(1), f)
        grown == double_capacity(World(0), f)
    IN /\ failed.threw = "bad_alloc"
       /\ failed.fault = "none"
       /\ failed.fbs = fbs /\ failed.bufs = bufs /\ failed.strs = strs
       /\ grown.threw # "none" => grown.fbs = fbs /\ grown.bufs = bufs
       /\ grown.threw = "none" =>
            /\ grown.fault = "none"
            /\ grown.fbs[f].capacity = 2 * fbs[f].capacity
            /\ grown.fbs[f].size = fbs[f].size
            /\ grown.fbs[f].fallback # fbs[f].fallback
            /\ DOMAIN grown.bufs =
                 (DOMAIN bufs \ {fbs[f].fallback}) \cup {grown.fbs[f].fallback}
            /\ DOMAIN grown.bufs[grown.fbs[f].fallback] =
                 0..(2 * fbs[f].capacity - 1)
            /\ \A i \in 0..(fbs[f].size - 1) :
                 grown.bufs[grown.fbs[f].fallback][i] = bufs[fbs[f].fallback][i]

\* C10 witness: an append failed in double_capacity (the Fallback is full)
\* and the full Fallback is still there.
GrowAllOrNothingWitness ==
  /\ last.op = "append" /\ last.threw = "bad_alloc"
  /\ Spilled(last.dst)
  /\ fbs[strs[last.dst]._fb].size = fbs[strs[last.dst]._fb].capacity
  /\ fbs[strs[last.dst]._fb].capacity = 2 * FALLBACK_INITIAL_CAP

\* C11: an append_char that fails on an allocation (the new Fallback, its
\* char array, or the doubled array) throws std::bad_alloc to the caller
\* and leaves the object and the heap as they were: _size, _fb, the
\* Fallback's size and every stored byte.
AppendCharFailsClean ==
  \A s \in live : \A k \in FailAt : \A c \in {LitT[1]} :
    \A w \in {append_char(World(k), s, c)} :
    LET allocates ==
          IF strs[s]._size = BUFFER_LIMIT THEN 2
          ELSE IF strs[s]._size > BUFFER_LIMIT
                  /\ fbs[strs[s]._fb].size = fbs[strs[s]._fb].capacity THEN 1
          ELSE 0
    IN /\ w.fault = "none"
       /\ w.threw \in {"none", "bad_alloc"}
       /\ (k >= 1 /\ k <= allocates) => w.threw = "bad_alloc"
       /\ w.threw = "bad_alloc" =>
            /\ allocates > 0
            /\ w.strs = strs /\ w.fbs = fbs /\ w.bufs = bufs
            /\ Str(w, s) = StrNow(s)

\* C11 witness: an append stopped by std::bad_alloc when the first
\* FALLBACK_INITIAL_CAP chars of the Fallback were full; the object keeps
\* the bytes stored before the failure.
AppendCharFailsCleanWitness ==
  /\ last.op = "append" /\ last.threw = "bad_alloc"
  /\ Spilled(last.dst)
  /\ strs[last.dst]._size = BUFFER_LIMIT + FALLBACK_INITIAL_CAP
  /\ fbs[strs[last.dst]._fb].capacity = FALLBACK_INITIAL_CAP

\* C12: an object of exactly BUFFER_LIMIT bytes has no Fallback; the next
\* append_char creates exactly one and gives _size BUFFER_LIMIT + 1; an
\* append_char at any other size creates none and keeps _fb; an append
\* adds one Fallback when it crosses BUFFER_LIMIT and none otherwise.
SpillsOnce ==
  /\ [](\A s \in live : \A c \in {LitT[1]} :
          \A w \in {append_char(World(0), s, c)} :
          /\ strs[s]._size = BUFFER_LIMIT => strs[s]._fb = NULL
          /\ w.threw = "none" =>
               IF strs[s]._size = BUFFER_LIMIT
               THEN /\ Cardinality(DOMAIN w.fbs) = Cardinality(DOMAIN fbs) + 1
                    /\ w.strs[s]._fb \in DOMAIN w.fbs \ DOMAIN fbs
                    /\ w.strs[s]._size = BUFFER_LIMIT + 1
               ELSE /\ DOMAIN w.fbs = DOMAIN fbs
                    /\ w.strs[s]._fb = strs[s]._fb)
  /\ [][\A s \in Slots :
          (last'.op = "append" /\ last'.dst = s) =>
            Cardinality(DOMAIN fbs') - Cardinality(DOMAIN fbs) =
              IF strs[s]._size <= BUFFER_LIMIT /\ strs'[s]._size > BUFFER_LIMIT
              THEN 1 ELSE 0]_vars

\* C12 witness: an object handed three literals, the second of which filled
\* the inline buffer exactly; it owns the only Fallback, grown once.
SpillsOnceWitness ==
  /\ last.op = "append" /\ last.threw = "none"
  /\ sent[last.dst].ok /\ sent[last.dst].S = LitQ \o LitQ \o LitQ
  /\ Cardinality(DOMAIN fbs) = 1
  /\ fbs[strs[last.dst]._fb].capacity = 2 * FALLBACK_INITIAL_CAP

\* C13: move assignment of a spilled object to itself hits no undefined
\* behaviour and leaves the object pointing to a live Fallback or to none,
\* with no Fallback left that nothing points to.
SelfMoveAssignSafe ==
  [][\A s \in Slots :
       (last'.op = "move_assign" /\ last'.dst = s /\ last'.src = s
          /\ Spilled(s) /\ Unowned = {}) =>
         /\ fault' = "none"
         /\ strs'[s]._fb \in DOMAIN fbs' \cup {NULL}
         /\ Unowned' = {}]_vars

\* C14: a copy assignment s = other between two objects that returns gives
\* s the length and bytes of other, leaves other as it was, releases the
\* Fallback s owned (and creates no other garbage), and gives s a Fallback
\* of its own when other is spilled.
CopyAssignReplaces ==
  [][\A s, other \in Slots :
       (last'.op = "copy_assign" /\ last'.dst = s /\ last'.src = other
          /\ s # other /\ last'.threw = "none") =>
         /\ fault' = "none"
         /\ strs'[s]._size = strs[other]._size
         /\ StrNow(s)' = StrNow(other)
         /\ StrNow(other)' = StrNow(other)
         /\ last'.freed = IF strs[s]._fb \in DOMAIN fbs THEN 1 ELSE 0
         /\ Cardinality(DOMAIN fbs') =
              Cardinality(DOMAIN fbs) - last'.freed
                + (IF Spilled(other) THEN 1 ELSE 0)
         /\ Cardinality(DOMAIN bufs') = Cardinality(DOMAIN fbs')
         /\ Cardinality(Unowned') = Cardinality(Unowned)
         /\ Spilled(other) =>
              /\ strs'[s]._fb \in DOMAIN fbs'
              /\ strs'[s]._fb # strs'[other]._fb]_vars

\* C14 witness: a spilled object was assigned the longer bytes of another
\* spilled object; its own Fallback was released and a new one grown.
CopyAssignReplacesWitness ==
  /\ last.op = "copy_assign" /\ last.threw = "none" /\ last.dst # last.src
  /\ last.freed = 1
  /\ StrNow(last.dst) = LitR \o LitQ \o LitQ
  /\ StrNow(last.src) = StrNow(last.dst)
  /\ Cardinality(DOMAIN fbs) = 2

\* C15: empty() on any live object releases its Fallback and char array if
\* it has one and touches nothing else, leaves _size 0 and _fb null; a
\* second empty() changes nothing more; and bytes appended afterwards read
\* back as appended.
EmptyResets ==
  \A s \in live :
    \A w1 \in {empty(World(0), s)} :
    \A w2 \in {empty(w1, s)} :
    \A w3 \in {append(w1, s, LitR \o LitQ)} :
    LET f == strs[s]._fb
    IN /\ w1.fault = "none" /\ w1.threw = "none"
       /\ w1.strs[s]._size = 0 /\ w1.strs[s]._fb = NULL
       /\ \A t \in Slots \ {s} : w1.strs[t] = strs[t]
       /\ IF f \in DOMAIN fbs
          THEN /\ DOMAIN w1.fbs = DOMAIN fbs \ {f}
               /\ DOMAIN w1.bufs = DOMAIN bufs \ {fbs[f].fallback}
               /\ w1.freed = 1
          ELSE /\ w1.fbs = fbs /\ w1.bufs = bufs /\ w1.freed = 0
       /\ \A g \in DOMAIN w1.fbs : w1.fbs[g] = fbs[g]
       /\ \A b \in DOMAIN w1.bufs : w1.bufs[b] = bufs[b]
       /\ w2.fault = "none" /\ w2.threw = "none"
       /\ w2.strs = w1.strs /\ w2.fbs = w1.fbs /\ w2.bufs = w1.bufs
       /\ w2.freed = w1.freed
       /\ w3.fault = "none"
       /\ w3.threw = "none" => Str(w3, s) = LitR \o LitQ

\* C15 witness: empty() has just released the Fallback of a spilled object
\* while the other object stays spilled.
EmptyResetsWitness ==
  /\ last.op = "empty" /\ last.freed = 1
  /\ strs[last.dst]._size = 0 /\ strs[last.dst]._fb = NULL
  /\ \E x \in live : x # last.dst /\ Spilled(x)

\* C16: s == literal and literal == s are true exactly when the bytes of s
\* are the chars of the literal, as s == t is for two objects.
LiteralEqualityExact ==
  \A s \in live : \A literal \in CompareLiterals :
    LET r == equals_literal(World(0), s, literal)
        l == literal_equals(World(0), literal, s)
    IN /\ r.fault = "none" /\ r.threw = "none"
       /\ l = r
       /\ r.val <=> StrNow(s) = literal

\* C17: L + R that returns is an object of length(L) + length(R) whose
\* bytes are those of L followed by those of R; whether it returns or
\* throws, L, R and every Fallback that existed are as before, and the
\* parameters' Fallbacks are gone.
ConcatAppends ==
  \A L, R \in live : \A k \in FailAt :
    \A w \in {operator_plus(WithTemps(World(k), {"ret"}), "ret", L, R)} :
    LET sum == strs[L]._size + strs[R]._size
    IN /\ w.fault = "none"
       /\ w.threw \in {"none", "bad_alloc"}
       /\ \A x \in Slots : w.strs[x] = strs[x]
       /\ \A f \in DOMAIN fbs :
            /\ f \in DOMAIN w.fbs /\ w.fbs[f] = fbs[f]
            /\ fbs[f].fallback \in DOMAIN w.bufs
            /\ w.bufs[fbs[f].fallback] = bufs[fbs[f].fallback]
       /\ Str(w, L) = StrNow(L) /\ Str(w, R) = StrNow(R)
       /\ w.threw = "none" =>
            /\ length(w, "ret") = sum
            /\ Str(w, "ret") = StrNow(L) \o StrNow(R)
            /\ Cardinality(DOMAIN w.fbs) =
                 Cardinality(DOMAIN fbs) + (IF sum > BUFFER_LIMIT THEN 1 ELSE 0)
       /\ w.threw # "none" =>
            /\ w.strs["ret"] = NoObject
            /\ w.fbs = fbs /\ w.bufs = bufs

\* C17 witness: the sum of two different spilled objects has just been
\* computed and compared.
ConcatAppendsWitness ==
  /\ last.op \in {"concat_equal", "concat_not_equal"} /\ last.threw = "none"
  /\ last.dst # last.src
  /\ Spilled(last.dst) /\ Spilled(last.src)
  /\ StrNow(last.dst) # StrNow(last.src)

\* C18: in every state a move constructor or move assignment, whatever
\* allocation is due to fail and however full the heap is, returns without
\* exception, makes no allocation, and leaves every Fallback and char array
\* as it was; the target of a move from another object takes its _size and
\* its _fb.
MovesNeverAllocate ==
  \A s \in Slots : \A other \in live : \A k \in FailAt :
    \A w \in {IF s \in live THEN move_assign(World(k), s, other)
              ELSE SmallString_move(World(k), s, other)} :
       /\ w.threw = "none" /\ w.fault = "none"
       /\ w.fail = k
       /\ w.fbs = fbs /\ w.bufs = bufs /\ w.freed = 0
       /\ s # other =>
            /\ w.strs[s]._size = strs[other]._size
            /\ w.strs[s]._fb = strs[other]._fb

\* C18 witness: a spilled object has just been move assigned while the
\* heap had no room for another Fallback.
MovesNeverAllocateWitness ==
  /\ last.op = "move_assign" /\ last.dst # last.src /\ last.threw = "none"
  /\ Spilled(last.dst)
  /\ Cardinality(DOMAIN fbs) = room

\* A capacity double_capacity can produce from FALLBACK_INITIAL_CAP.
RECURSIVE Doubled(_)
Doubled(n) ==
  \/ n = FALLBACK_INITIAL_CAP
  \/ n > FALLBACK_INITIAL_CAP /\ n % 2 = 0 /\ Doubled(n \div 2)

\* C19: every Fallback has 1 <= size <= capacity, a capacity of
\* FALLBACK_INITIAL_CAP times a power of two and an array of that many
\* chars; Fallback::append_char doubles the capacity exactly when it finds
\* size = capacity and otherwise keeps capacity and array, and in both
\* cases keeps the first size chars and stores the new one after them; an
\* append changes the capacity of the object's Fallback only by doubling
\* it, and only when the size has passed the old capacity.
FallbackShape ==
  /\ [](\A f \in DOMAIN fbs : \A c \in {LitT[1]} :
          \A w \in {Fallback_append_char(World(0), f, c)} :
          LET b == fbs[f].fallback
          IN /\ 1 <= fbs[f].size /\ fbs[f].size <= fbs[f].capacity
             /\ Doubled(fbs[f].capacity)
             /\ b \in DOMAIN bufs
             /\ DOMAIN bufs[b] = 0..(fbs[f].capacity - 1)
             /\ w.fault = "none"
             /\ w.threw = "none" =>
                  /\ w.fbs[f].size = fbs[f].size + 1
                  /\ w.fbs[f].capacity =
                       IF fbs[f].size = fbs[f].capacity
                       THEN 2 * fbs[f].capacity ELSE fbs[f].capacity
                  /\ fbs[f].size < fbs[f].capacity =>
                       w.fbs[f].fallback = b
                  /\ \A i \in 0..(fbs[f].size - 1) :
                       w.bufs[w.fbs[f].fallback][i] = bufs[b][i]
                  /\ w.bufs[w.fbs[f].fallback][fbs[f].size] = c)
  /\ [][\A s \in Slots :
          (last'.op = "append" /\ last'.dst = s
             /\ strs[s]._fb \in DOMAIN fbs /\ strs'[s]._fb \in DOMAIN fbs') =>
            LET old == fbs[strs[s]._fb]
                new == fbs'[strs'[s]._fb]
            IN /\ new.capacity \in {old.capacity, 2 * old.capacity}
               /\ new.capacity # old.capacity <=> new.size > old.capacity
               /\ new.size >= old.size
               /\ \A i \in 0..(old.size - 1) :
                    bufs'[new.fallback][i] = bufs[old.fallback][i]]_vars

\* C19 witness: an append has just doubled the capacity for the second
\* time.
FallbackShapeWitness ==
  /\ last.op = "append" /\ last.threw = "none"
  /\ Spilled(last.dst)
  /\ fbs[strs[last.dst]._fb].capacity = 4 * FALLBACK_INITIAL_CAP
  /\ fbs[strs[last.dst]._fb].size <= 2 * FALLBACK_INITIAL_CAP + Len(LitT)

\* C20: a live object whose _fb is not null points to a Fallback whose
\* size is _size - BUFFER_LIMIT, so every index from BUFFER_LIMIT up to
\* _size - 1 falls below the Fallback's size and capacity and inside its
\* array.
FallbackHoldsTail ==
  \A s \in live :
    strs[s]._fb # NULL =>
      /\ strs[s]._fb \in DOMAIN fbs
      /\ fbs[strs[s]._fb].size = strs[s]._size - BUFFER_LIMIT
      /\ \A i \in BUFFER_LIMIT..(strs[s]._size - 1) :
           /\ i - BUFFER_LIMIT < fbs[strs[s]._fb].size
           /\ i - BUFFER_LIMIT < fbs[strs[s]._fb].capacity
           /\ (i - BUFFER_LIMIT) \in DOMAIN bufs[fbs[strs[s]._fb].fallback]

\* C20 witness: a copy assignment from a grown object stopped by
\* std::bad_alloc when the target's Fallback had to grow.
FallbackHoldsTailWitness ==
  /\ last.op = "copy_assign" /\ last.threw = "bad_alloc"
  /\ Spilled(last.dst)
  /\ fbs[strs[last.dst]._fb].size = FALLBACK_INITIAL_CAP
  /\ strs[last.src]._size = MaxLen

====
